---- MODULE Spec2Model ----
(***************************************************************************)
(* A model of src/rental-statement.ts: the pricing rules                   *)
(* (calculateRentalCharge and the three per-category calculators), the     *)
(* line formatter (formatStatementLine) and the statement loop.            *)
(*                                                                         *)
(* JavaScript values are records tagged by their type in field t.  A       *)
(* number holds its value in hundredths (v = 150 is 1.5), which is exact   *)
(* for every number of the program: the pricing parameters are multiples   *)
(* of 0.5 and rental days are validated to be integers before arithmetic.  *)
(* A string is a sequence of one-character strings.  Property keys (movie  *)
(* IDs, movie codes) are atomic strings.                                    *)
(***************************************************************************)
EXTENDS Integers, Sequences, FiniteSets

VARIABLES
    op,                    \* the entry point called last
    args,                  \* its arguments
    result,                \* the outcome of a calculateRentalCharge / formatStatementLine call
    pc,                    \* "idle", "loop" (inside statement's loop), "done" (returned), "failed" (threw)
    customer,              \* statement's customer argument
    movies,                \* statement's movies argument
    idx,                   \* index of the next rental of the for..of loop
    totalAmount,           \* statement's local totalAmount
    frequentRenterPoints,  \* statement's local frequentRenterPoints
    rentalSummaries,       \* statement's local rentalSummaries
    console,               \* what console.log has written during the call
    error,                 \* the value statement() threw
    output                 \* the string statement() returned

vars == <<op, args, result, pc, customer, movies, idx, totalAmount,
          frequentRenterPoints, rentalSummaries, console, error, output>>

-----------------------------------------------------------------------------
(* Bounds of the inputs *)

MaxDays == 6

MaxRentals == 2

MaxLabelLen == 40

-----------------------------------------------------------------------------
(* JavaScript values *)

Scale == 100

Num(n) == [t |-> "number", v |-> n]

Whole(n) == Num(n * Scale)

Dec(whole, hundredths) == Num(whole * Scale + hundredths)

NaN == [t |-> "NaN"]

Undefined == [t |-> "undefined"]

Str(chars) == [t |-> "string", s |-> chars]

None == [t |-> "none"]

Plus(a, b) ==
    IF a.t = "number" /\ b.t = "number" THEN Num(a.v + b.v) ELSE NaN

Minus(a, b) ==
    IF a.t = "number" /\ b.t = "number" THEN Num(a.v - b.v) ELSE NaN

Times(a, b) ==
    IF a.t = "number" /\ b.t = "number" THEN Num((a.v * b.v) \div Scale) ELSE NaN

Gt(a, b) == a.t = "number" /\ b.t = "number" /\ a.v > b.v

Lt(a, b) == a.t = "number" /\ b.t = "number" /\ a.v < b.v

IsInteger(x) == x.t = "number" /\ x.v % Scale = 0

\* Keys every object literal inherits from Object.prototype (three of them).
ObjectPrototype == {"constructor", "toString", "__proto__"}

\* The inherited members that can be called; Object.prototype itself cannot.
Callable == {"constructor", "toString"}

Returned(value, notices) == [kind |-> "return", value |-> value, notices |-> notices]

Thrown(err) == [kind |-> "throw", error |-> err, notices |-> <<>>]

Err(name, message, arg) == [name |-> name, message |-> message, arg |-> arg]

Key(k) == [t |-> "string", k |-> k]

TypeError == Err("TypeError", "", None)

-----------------------------------------------------------------------------
(* Constants and configurations *)

POINTS_PER_RENTAL == 1

PRICING_TIERS ==
    [regular  |-> [base |-> Whole(2), thresholdDays |-> Whole(2), extraRate |-> Dec(1, 50)],
     children |-> [base |-> Dec(1, 50), thresholdDays |-> Whole(3), extraRate |-> Dec(1, 50)],
     new      |-> [rate |-> Whole(3), thresholdDays |-> Whole(2), bonusPoints |-> Whole(1)]]

-----------------------------------------------------------------------------
(* Pricing logic *)

calculateRegularCharge_allDays(days) ==
    LET base == PRICING_TIERS.regular.base
        thresholdDays == PRICING_TIERS.regular.thresholdDays
        extraRate == PRICING_TIERS.regular.extraRate
        amount == IF Gt(days, thresholdDays)
                  THEN Plus(base, Times(days, extraRate))
                  ELSE base
    IN  [amount |-> amount, points |-> Whole(POINTS_PER_RENTAL)]

calculateRegularCharge(days) ==
    LET base == PRICING_TIERS.regular.base
        thresholdDays == PRICING_TIERS.regular.thresholdDays
        extraRate == PRICING_TIERS.regular.extraRate
        amount == IF Gt(days, thresholdDays)
                  THEN Plus(base, Times(Minus(days, thresholdDays), extraRate))
                  ELSE base
    IN  [amount |-> amount, points |-> Whole(POINTS_PER_RENTAL)]

calculateChildrenCharge_regular(days) ==
    LET base == PRICING_TIERS.regular.base
        thresholdDays == PRICING_TIERS.regular.thresholdDays
        extraRate == PRICING_TIERS.regular.extraRate
        amount == IF Gt(days, thresholdDays)
                  THEN Plus(base, Times(Minus(days, thresholdDays), extraRate))
                  ELSE base
    IN  [amount |-> amount, points |-> Whole(POINTS_PER_RENTAL)]

calculateChildrenCharge(days) ==
    LET base == PRICING_TIERS.children.base
        thresholdDays == PRICING_TIERS.children.thresholdDays
        extraRate == PRICING_TIERS.children.extraRate
        amount == IF Gt(days, thresholdDays)
                  THEN Plus(base, Times(Minus(days, thresholdDays), extraRate))
                  ELSE base
    IN  [amount |-> amount, points |-> Whole(POINTS_PER_RENTAL)]

calculateNewReleaseCharge_ge(days) ==
    LET rate == PRICING_TIERS.new.rate
        thresholdDays == PRICING_TIERS.new.thresholdDays
        bonusPoints == PRICING_TIERS.new.bonusPoints
        amount == Times(days, rate)
        points == IF ~Lt(days, thresholdDays)
                  THEN Plus(Whole(POINTS_PER_RENTAL), bonusPoints)
                  ELSE Whole(POINTS_PER_RENTAL)
    IN  [amount |-> amount, points |-> points]

calculateNewReleaseCharge(days) ==
    LET rate == PRICING_TIERS.new.rate
        thresholdDays == PRICING_TIERS.new.thresholdDays
        bonusPoints == PRICING_TIERS.new.bonusPoints
        amount == Times(days, rate)
        points == IF Gt(days, thresholdDays)
                  THEN Plus(Whole(POINTS_PER_RENTAL), bonusPoints)
                  ELSE Whole(POINTS_PER_RENTAL)
    IN  [amount |-> amount, points |-> points]

chargeCalculators ==
    [regular  |-> "calculateRegularCharge",
     children |-> "calculateChildrenCharge",
     new      |-> "calculateNewReleaseCharge"]

\* calculator(days) for a calculator of the table
Apply(calculator, days) ==
    CASE calculator = "calculateRegularCharge"    -> calculateRegularCharge(days)
      [] calculator = "calculateChildrenCharge"   -> calculateChildrenCharge(days)
      [] calculator = "calculateNewReleaseCharge" -> calculateNewReleaseCharge(days)

\* movie.code as the property key and template text it converts to
CodeOf(movie) == IF "code" \in DOMAIN movie THEN movie.code ELSE "undefined"

\* movie.title
TitleOf(movie) == IF "title" \in DOMAIN movie THEN movie.title ELSE Undefined

InvalidDays(days) ==
    Err("Error", "Rental days must be a positive integer (received: ", days)

UnknownCode(code) == [message |-> "Unknown movie code: ", arg |-> Key(code)]

calculateRentalCharge_lt0(movie, days) ==
    LET code == CodeOf(movie) IN
    IF ~IsInteger(days) \/ Lt(days, Whole(0))
    THEN Thrown(InvalidDays(days))
    ELSE IF code \in DOMAIN chargeCalculators
    THEN Returned(Apply(chargeCalculators[code], days), <<>>)
    ELSE IF code \in Callable
    THEN Returned([t |-> "object"], <<>>)
    ELSE IF code \in ObjectPrototype
    THEN Thrown(TypeError)
    ELSE Returned([amount |-> Whole(0), points |-> Whole(POINTS_PER_RENTAL)],
                  <<UnknownCode(code)>>)

calculateRentalCharge(movie, days) ==
    LET code == CodeOf(movie) IN
    IF ~IsInteger(days) \/ Lt(days, Whole(1))
    THEN Thrown(InvalidDays(days))
    \* chargeCalculators[movie.code]: an own calculator, ...
    ELSE IF code \in DOMAIN chargeCalculators
    THEN Returned(Apply(chargeCalculators[code], days), <<>>)
    \* ... an inherited function (Object, Object.prototype.toString), which is
    \* truthy and returns a value that has no amount and no points, ...
    ELSE IF code \in Callable
    THEN Returned([t |-> "object"], <<>>)
    \* ... the inherited Object.prototype, which is truthy and not callable, ...
    ELSE IF code \in ObjectPrototype
    THEN Thrown(TypeError)
    \* ... or undefined
    ELSE Returned([amount |-> Whole(0), points |-> Whole(POINTS_PER_RENTAL)],
                  <<UnknownCode(code)>>)

\* const { amount, points } = value
Field(value, name) == IF name \in DOMAIN value THEN value[name] ELSE Undefined

-----------------------------------------------------------------------------
(* Strings *)

Min(a, b) == IF a < b THEN a ELSE b

Repeat(c, n) == [i \in 1..n |-> c]

WhiteSpace == {" ", "\t", "\n"}

RECURSIVE TrimStart(_)
TrimStart(s) ==
    IF Len(s) > 0 /\ Head(s) \in WhiteSpace THEN TrimStart(Tail(s)) ELSE s

RECURSIVE TrimEnd(_)
TrimEnd(s) ==
    IF Len(s) > 0 /\ s[Len(s)] \in WhiteSpace
    THEN TrimEnd(SubSeq(s, 1, Len(s) - 1))
    ELSE s

\* String.prototype.trim
Trim(s) == TrimEnd(TrimStart(s))

\* String.prototype.slice(from, to) for 0 <= from <= to
Slice(s, from, to) == SubSeq(s, from + 1, Min(to, Len(s)))

\* String.prototype.padEnd with the default filler, a space
PadEnd(s, width) == IF Len(s) >= width THEN s ELSE s \o Repeat(" ", width - Len(s))

\* String.prototype.padStart with the default filler, a space
PadStart(s, width) == IF Len(s) >= width THEN s ELSE Repeat(" ", width - Len(s)) \o s

Digit(d) == <<"0", "1", "2", "3", "4", "5", "6", "7", "8", "9">>[d + 1]

RECURSIVE Digits(_)
Digits(n) == IF n < 10 THEN <<Digit(n)>> ELSE Digits(n \div 10) \o <<Digit(n % 10)>>

Abs(n) == IF n < 0 THEN -n ELSE n

\* Number.prototype.toFixed(2) of a number or NaN
toFixed(x) ==
    IF x.t = "NaN"
    THEN <<"N", "a", "N">>
    ELSE (IF x.v < 0 THEN <<"-">> ELSE <<>>)
            \o Digits(Abs(x.v) \div Scale)
            \o <<".">>
            \o <<Digit((Abs(x.v) % Scale) \div 10), Digit(Abs(x.v) % 10)>>

\* `${x}` of a number or NaN
NumberToString(x) ==
    IF x.t = "NaN"
    THEN <<"N", "a", "N">>
    ELSE (IF x.v < 0 THEN <<"-">> ELSE <<>>)
            \o Digits(Abs(x.v) \div Scale)
            \o (IF Abs(x.v) % Scale = 0
                THEN <<>>
                ELSE IF Abs(x.v) % 10 = 0
                THEN <<".", Digit((Abs(x.v) % Scale) \div 10)>>
                ELSE <<".", Digit((Abs(x.v) % Scale) \div 10), Digit(Abs(x.v) % 10)>>)

\* Array.prototype.join
RECURSIVE Join(_, _)
Join(lines, sep) ==
    IF Len(lines) = 0 THEN <<>>
    ELSE IF Len(lines) = 1 THEN lines[1]
    ELSE lines[1] \o sep \o Join(Tail(lines), sep)

-----------------------------------------------------------------------------
(* Statement formatting *)

LABEL_WIDTH == 30

AMOUNT_WIDTH == 8

formatStatementLine_noEllipsisRoom(label, amount) ==
    IF label.t # "string"
    THEN Thrown(TypeError)
    ELSE IF Len(Trim(label.s)) = 0
    THEN Returned(Str(Repeat("-", LABEL_WIDTH + AMOUNT_WIDTH)), <<>>)
    ELSE IF amount.t \notin {"number", "NaN"}
    THEN Thrown(TypeError)
    ELSE LET displayLabel ==
                 IF Len(label.s) > LABEL_WIDTH
                 THEN Slice(label.s, 0, LABEL_WIDTH) \o <<".", ".", ".">>
                 ELSE label.s
         IN  Returned(Str(PadEnd(displayLabel, LABEL_WIDTH)
                              \o PadStart(toFixed(amount), AMOUNT_WIDTH)), <<>>)

formatStatementLine(label, amount) ==
    \* label.trim() of undefined throws
    IF label.t # "string"
    THEN Thrown(TypeError)
    ELSE IF Len(Trim(label.s)) = 0
    THEN Returned(Str(Repeat("-", LABEL_WIDTH + AMOUNT_WIDTH)), <<>>)
    \* amount.toFixed(2) of undefined throws
    ELSE IF amount.t \notin {"number", "NaN"}
    THEN Thrown(TypeError)
    ELSE LET displayLabel ==
                 IF Len(label.s) > LABEL_WIDTH
                 THEN Slice(label.s, 0, LABEL_WIDTH - 3) \o <<".", ".", ".">>
                 ELSE label.s
         IN  Returned(Str(PadEnd(displayLabel, LABEL_WIDTH)
                              \o PadStart(toFixed(amount), AMOUNT_WIDTH)), <<>>)


MovieNotFound(movieID) == Err("Error", "Movie not found for ID: ", Key(movieID))

\* obj[key] of an object literal: an own property, an inherited one, or undefined
Lookup(obj, key) ==
    IF key \in DOMAIN obj THEN obj[key]
    ELSE IF key \in ObjectPrototype THEN [t |-> "object"]
    ELSE Undefined

\* The elements of outputLines, each the outcome of the expression that yields it
outputLines(name, summaries, total, points) ==
    <<Returned(Str(<<"R", "e", "n", "t", "a", "l", " ", "R", "e", "c", "o", "r", "d", " ", "f", "o", "r", " ">> \o name.s), <<>>),
      formatStatementLine(Str(<<>>), Whole(0))>>
    \o [i \in 1..Len(summaries) |->
            formatStatementLine(summaries[i].title, summaries[i].amount)]
    \o <<formatStatementLine(Str(<<>>), Whole(0)),
         formatStatementLine(Str(<<"A", "m", "o", "u", "n", "t", " ", "o", "w", "e", "d", " ", "i", "s">>), total),
         Returned(Str(<<"E", "a", "r", "n", "e", "d", " ">> \o NumberToString(points)
                      \o <<" ", "f", "r", "e", "q", "u", "e", "n", "t", " ", "r", "e", "n", "t", "e", "r", " ", "p", "o", "i", "n", "t", "s">>), <<>>)>>

\* The array literal and the join of statement(): the string, or what was thrown
render(name, summaries, total, points) ==
    LET outs == outputLines(name, summaries, total, points)
        thrown == {i \in 1..Len(outs) : outs[i].kind = "throw"}
    IN  IF thrown # {}
        THEN Thrown(outs[CHOOSE i \in thrown : \A j \in thrown : i <= j].error)
        ELSE Returned(Str(Join([i \in 1..Len(outs) |-> outs[i].value.s], <<"\n">>)
                          \o <<"\n">>), <<>>)

-----------------------------------------------------------------------------
(* Demo data *)

DemoCustomer ==
    [name |-> Str(<<"m", "a", "r", "t", "i", "n">>),
     rentals |-> <<[movieID |-> "F001", days |-> Whole(3)],
                   [movieID |-> "F002", days |-> Whole(1)],
                   [movieID |-> "F003", days |-> Whole(1)],
                   [movieID |-> "F004", days |-> Whole(1)]>>]

DemoMovies ==
    [F001 |-> [title |-> Str(<<"R", "a", "n">>), code |-> "regular"],
     F002 |-> [title |-> Str(<<"T", "r", "o", "i", "s", " ", "C", "o", "u", "l", "e", "u", "r", "s", ":", " ", "B", "l", "e", "u">>),
               code |-> "regular"],
     F003 |-> [title |-> Str(<<"S", "u", "n", "e", "s", " ", "S", "o", "m", "m", "a", "r">>),
               code |-> "children"],
     F004 |-> [title |-> Str(<<"Y", "a", "r", "a">>), code |-> "new"]]

-----------------------------------------------------------------------------
(* Inputs of the calls *)

Letters ==
    <<"a", "b", "c", "d", "e", "f", "g", "h", "i", "j", "k", "l", "m", "n", "o", "p", "q", "r", "s", "t", "u", "v", "w", "x", "y", "z", "A", "B", "C", "D", "E", "F", "G", "H", "I", "J", "K", "L", "M", "N", "O", "P", "Q", "R", "S", "T", "U", "V", "W", "X", "Y", "Z">>

\* A label of n distinct-by-position characters
Label(n) == [i \in 1..n |-> Letters[((i - 1) % Len(Letters)) + 1]]

\* A catalog with, besides the demo movies, a movie without a title, movies
\* whose code has no calculator, and a movie with a long title
OtherMovies ==
    [id \in {"F001", "F002", "F003", "F004", "F005", "F006", "F007", "F008", "F009"} |->
        CASE id = "F005" -> [title |-> Str(<<>>), code |-> "regular"]
          [] id = "F006" -> [title |-> Str(<<"A", "l", "i", "e", "n">>), code |-> "vhs"]
          [] id = "F007" -> [title |-> Str(Label(LABEL_WIDTH + 10)), code |-> "children"]
          [] id = "F008" -> [title |-> Str(<<"O", "b", "j", "e", "c", "t">>), code |-> "constructor"]
          [] id = "F009" -> [title |-> Str(<<"P", "r", "o", "t", "o">>), code |-> "__proto__"]
          [] OTHER -> DemoMovies[id]]

Codes == {"regular", "children", "new", "vhs", "undefined",
          "constructor", "toString", "__proto__"}

MovieInputs ==
    {[title |-> Str(<<"R", "a", "n">>), code |-> c] : c \in Codes} \cup {[t |-> "object"]}

DaysInputs ==
    {Whole(d) : d \in (-1)..MaxDays} \cup {Dec(0, 50), Dec(1, 50), NaN}

LabelInputs ==
    {Str(Label(n)) : n \in 0..MaxLabelLen}
        \cup {Str(<<" ">>), Str(<<" ", "\t">>), Str(<<" ", "R", "a", "n", " ">>), Undefined}

AmountInputs ==
    {Whole(0), Dec(1, 50), Dec(8, 50), Dec(99999, 99), Whole(100000), Num(-150),
     NaN, Undefined}

RentalPool ==
    {[movieID |-> id, days |-> d] :
        id \in {"F001", "F003", "F004", "F005", "F006", "F007", "F008", "F009",
                "F999", "constructor"},
        d \in {Whole(0), Whole(1), Whole(4), Dec(1, 50)}}

RentalInputs == UNION {[1..n -> RentalPool] : n \in 0..MaxRentals}

-----------------------------------------------------------------------------
(* The calls *)

Init ==
    /\ op = "none"
    /\ args = None
    /\ result = None
    /\ pc = "idle"
    /\ customer = DemoCustomer
    /\ movies = DemoMovies
    /\ idx = 0
    /\ totalAmount = Whole(0)
    /\ frequentRenterPoints = Whole(0)
    /\ rentalSummaries = <<>>
    /\ console = <<>>
    /\ error = None
    /\ output = None

\* No statement() call is active: its locals are gone, the module's customer
\* and movies are the demo data
NoStatement ==
    /\ customer' = DemoCustomer
    /\ movies' = DemoMovies
    /\ idx' = 0
    /\ totalAmount' = Whole(0)
    /\ frequentRenterPoints' = Whole(0)
    /\ rentalSummaries' = <<>>
    /\ error' = None
    /\ output' = None

\* Where a call that has ended leaves the program
Position(outcome) == IF outcome.kind = "throw" THEN "failed" ELSE "done"

CallCalculateRentalCharge ==
    /\ pc = "idle"
    /\ \E movie \in MovieInputs, days \in DaysInputs :
          /\ op' = "calculateRentalCharge"
          /\ args' = [movie |-> movie, days |-> days]
          /\ result' = calculateRentalCharge(movie, days)
          /\ console' = calculateRentalCharge(movie, days).notices
          /\ pc' = Position(calculateRentalCharge(movie, days))
    /\ NoStatement

CallFormatStatementLine ==
    /\ pc = "idle"
    /\ \E label \in LabelInputs, amount \in AmountInputs :
          /\ op' = "formatStatementLine"
          /\ args' = [label |-> label, amount |-> amount]
          /\ result' = formatStatementLine(label, amount)
          /\ pc' = Position(formatStatementLine(label, amount))
    /\ console' = <<>>
    /\ NoStatement

\* statement(customer, movies) up to the for..of loop
CallStatement ==
    /\ pc = "idle"
    /\ \/ customer' = DemoCustomer /\ movies' = DemoMovies
       \/ \E rentals \in RentalInputs :
             /\ customer' = [name |-> DemoCustomer.name, rentals |-> rentals]
             /\ movies' = OtherMovies
    /\ op' = "statement"
    /\ args' = None
    /\ result' = None
    /\ pc' = "loop"
    /\ idx' = 1
    /\ totalAmount' = Whole(0)
    /\ frequentRenterPoints' = Whole(0)
    /\ rentalSummaries' = <<>>
    /\ console' = <<>>
    /\ error' = None
    /\ output' = None

Fail(err) ==
    /\ pc' = "failed"
    /\ error' = err
    /\ UNCHANGED <<op, args, result, customer, movies, idx, totalAmount,
                   frequentRenterPoints, rentalSummaries, console, output>>

\* One iteration of the for..of loop
ProcessRental ==
    /\ pc = "loop"
    /\ idx <= Len(customer.rentals)
    /\ LET rental == customer.rentals[idx]
           movie == Lookup(movies, rental.movieID)
           charge == calculateRentalCharge(movie, rental.days)
           amount == Field(charge.value, "amount")
           points == Field(charge.value, "points")
       IN  IF movie = Undefined
           THEN Fail(MovieNotFound(rental.movieID))
           ELSE IF charge.kind = "throw"
           THEN Fail(charge.error)
           ELSE /\ totalAmount' = Plus(totalAmount, amount)
                /\ frequentRenterPoints' = Plus(frequentRenterPoints, points)
                /\ rentalSummaries' =
                       Append(rentalSummaries, [title |-> TitleOf(movie), amount |-> amount])
                /\ console' = console \o charge.notices
                /\ idx' = idx + 1
                /\ UNCHANGED <<op, args, result, pc, customer, movies, error, output>>

\* The statements after the loop
Render ==
    /\ pc = "loop"
    /\ idx > Len(customer.rentals)
    /\ LET text == render(customer.name, rentalSummaries, totalAmount,
                          frequentRenterPoints)
       IN  IF text.kind = "throw"
           THEN Fail(text.error)
           ELSE /\ pc' = "done"
                /\ output' = text.value
                /\ UNCHANGED <<op, args, result, customer, movies, idx, totalAmount,
                               frequentRenterPoints, rentalSummaries, console, error>>

\* The call has ended and its locals are gone
Return ==
    /\ pc \in {"done", "failed"}
    /\ pc' = "idle"
    /\ op' = "none"
    /\ args' = None
    /\ result' = None
    /\ console' = <<>>
    /\ NoStatement

Next ==
    \/ CallCalculateRentalCharge
    \/ CallFormatStatementLine
    \/ CallStatement
    \/ ProcessRental
    \/ Render
    \/ Return

Spec == Init /\ [][Next]_vars

-----------------------------------------------------------------------------
(* Reading a rendered statement back *)

DigitChars == {Digit(d) : d \in 0..9}

DigitValue(c) == CHOOSE d \in 0..9 : Digit(d) = c

RECURSIVE DigitsValue(_)
DigitsValue(s) ==
    IF Len(s) = 0 THEN 0
    ELSE 10 * DigitsValue(SubSeq(s, 1, Len(s) - 1)) + DigitValue(s[Len(s)])

\* s is digits, a point and two digits
IsFixed(s) ==
    /\ Len(s) >= 4
    /\ s[Len(s) - 2] = "."
    /\ \A i \in 1..Len(s) : i # Len(s) - 2 => s[i] \in DigitChars

\* The amount a text with two decimals shows; None when it shows no amount
ParseFixed(text) ==
    LET s == TrimStart(text)
        negative == Len(s) > 0 /\ Head(s) = "-"
        body == IF negative THEN Tail(s) ELSE s
        cents == 100 * DigitsValue(SubSeq(body, 1, Len(body) - 3))
                   + DigitsValue(SubSeq(body, Len(body) - 1, Len(body)))
    IN  IF s = <<"N", "a", "N">> THEN NaN
        ELSE IF ~IsFixed(body) THEN None
        ELSE Num(IF negative THEN -cents ELSE cents)

\* The amount shown in the amount column of a line; None when it shows none
DisplayedAmount(line) ==
    IF Len(line) <= LABEL_WIDTH THEN None
    ELSE ParseFixed(SubSeq(line, LABEL_WIDTH + 1, Len(line)))

\* The pieces of text between the separators c (text.split(c))
RECURSIVE Split(_, _)
Split(text, c) ==
    IF \A i \in 1..Len(text) : text[i] # c
    THEN <<text>>
    ELSE LET k == CHOOSE i \in 1..Len(text) :
                      text[i] = c /\ \A j \in 1..(i - 1) : text[j] # c
         IN  <<SubSeq(text, 1, k - 1)>> \o Split(SubSeq(text, k + 1, Len(text)), c)

RECURSIVE SumShown(_)
SumShown(amounts) ==
    IF Len(amounts) = 0 THEN Whole(0)
    ELSE IF Head(amounts) = None THEN SumShown(Tail(amounts))
    ELSE Plus(Head(amounts), SumShown(Tail(amounts)))

Dashes == Repeat("-", 38)

ValidDays(days) == IsInteger(days) /\ days.v >= Scale

InCall(name) == op = name /\ pc \in {"done", "failed"}

-----------------------------------------------------------------------------
(* The pricing rules *)

\* C1: for the codes regular and children and every positive integer days,
\* calculateRentalCharge returns the amount base when days <= thresholdDays and
\* base + (days - thresholdDays) * extraRate when days > thresholdDays, with the
\* code's own parameters of PRICING_TIERS, and 1 point in both cases.
C1_ThresholdPricing ==
    (/\ InCall("calculateRentalCharge")
     /\ CodeOf(args.movie) \in {"regular", "children"}
     /\ ValidDays(args.days))
    => LET tier == PRICING_TIERS[CodeOf(args.movie)]
           extraDays == (args.days.v - tier.thresholdDays.v) \div Scale
       IN  /\ result.kind = "return"
           /\ result.value.amount.t = "number"
           /\ result.value.amount.v =
                  IF args.days.v <= tier.thresholdDays.v
                  THEN tier.base.v
                  ELSE tier.base.v + extraDays * tier.extraRate.v
           /\ result.value.points = Whole(1)

\* A regular movie kept 5 days, 3 more than its threshold, costs 2 + 3 * 1.5 = 6.50.
C1_Witness ==
    /\ InCall("calculateRentalCharge")
    /\ CodeOf(args.movie) = "regular"
    /\ args.days = Whole(5)
    /\ result.kind = "return"
    /\ result.value.amount = Dec(6, 50)

\* C2: for the code new and every integer days >= 1, calculateRentalCharge
\* returns the amount days * rate, with 1 point when days <= thresholdDays and
\* 1 + bonusPoints when days > thresholdDays.
C2_NewReleasePricing ==
    (/\ InCall("calculateRentalCharge")
     /\ CodeOf(args.movie) = "new"
     /\ ValidDays(args.days))
    => LET tier == PRICING_TIERS.new
       IN  /\ result.kind = "return"
           /\ result.value.amount.t = "number"
           /\ result.value.amount.v = (args.days.v \div Scale) * tier.rate.v
           /\ result.value.points.t = "number"
           /\ result.value.points.v =
                  IF args.days.v <= tier.thresholdDays.v
                  THEN Scale
                  ELSE Scale + tier.bonusPoints.v

\* A new release kept exactly thresholdDays = 2 days costs 6.00 and earns no bonus.
C2_Witness ==
    /\ InCall("calculateRentalCharge")
    /\ CodeOf(args.movie) = "new"
    /\ args.days = PRICING_TIERS.new.thresholdDays
    /\ result.kind = "return"
    /\ result.value = [amount |-> Whole(6), points |-> Whole(1)]

\* C3: for every code, known or not, calculateRentalCharge with days zero,
\* negative or not an integer throws the error about rental days, carrying the
\* value as received, returns no charge and writes no notice; that error is not
\* the one of a missing movie.
C3_InvalidDaysThrow ==
    (/\ InCall("calculateRentalCharge")
     /\ ~ValidDays(args.days))
    => /\ pc = "failed"
       /\ result.kind = "throw"
       /\ result.error = InvalidDays(args.days)
       /\ result.error.message # MovieNotFound("F001").message
       /\ "value" \notin DOMAIN result
       /\ console = <<>>

\* Zero days for a code without a calculator is rejected.
C3_Witness ==
    /\ InCall("calculateRentalCharge")
    /\ CodeOf(args.movie) = "vhs"
    /\ args.days = Whole(0)
    /\ result.kind = "throw"

\* C4: with a code that has no calculator in chargeCalculators and a positive
\* integer days, calculateRentalCharge does not throw, returns amount 0 and 1
\* point and writes one notice naming the code; and a statement never fails on
\* a rental whose movie is in the catalog and whose days are valid.
C4_UnknownCodeTolerated ==
    /\ (/\ InCall("calculateRentalCharge")
        /\ CodeOf(args.movie) \notin DOMAIN chargeCalculators
        /\ ValidDays(args.days))
       => /\ result.kind = "return"
          /\ result.value = [amount |-> Whole(0), points |-> Whole(POINTS_PER_RENTAL)]
          /\ console = <<UnknownCode(CodeOf(args.movie))>>
    /\ (op = "statement" /\ pc = "failed" /\ idx <= Len(customer.rentals))
       => \/ customer.rentals[idx].movieID \notin DOMAIN movies
          \/ ~ValidDays(customer.rentals[idx].days)

-----------------------------------------------------------------------------
(* The statement *)

Rentals == customer.rentals

\* The lines of the returned text, and after the last newline an empty piece
Lines == Split(output.s, "\n")

\* The rental is in the catalog and is priced without an error
Priced(rental) ==
    /\ rental.movieID \in DOMAIN movies
    /\ calculateRentalCharge(movies[rental.movieID], rental.days).kind = "return"

\* C5: when a rental's movieID is absent from the catalog and the rentals
\* before it are priced, statement throws the missing-movie error naming that
\* ID; and whenever statement throws, it returns no text.
C5_MissingMovieAborts ==
    (op = "statement" /\ pc \in {"done", "failed"})
    => /\ \A i \in 1..Len(Rentals) :
            (/\ Rentals[i].movieID \notin DOMAIN movies
             /\ \A j \in 1..(i - 1) : Priced(Rentals[j]))
            => /\ pc = "failed"
               /\ error = MovieNotFound(Rentals[i].movieID)
       /\ pc = "failed" => output = None

DemoDone ==
    /\ op = "statement"
    /\ pc = "done"
    /\ customer = DemoCustomer
    /\ movies = DemoMovies

Amounts == [i \in 1..Len(rentalSummaries) |-> rentalSummaries[i].amount]

\* C6 as claimed: for the demo customer and movies the amounts are 2.00, 2.00,
\* 1.50 and 3.00, the total is 8.50 and the points are 4.
C6_DemoTotalsAsClaimed ==
    DemoDone
    => /\ Amounts = <<Whole(2), Whole(2), Dec(1, 50), Whole(3)>>
       /\ totalAmount = Dec(8, 50)
       /\ DisplayedAmount(Lines[Len(Rentals) + 4]) = Dec(8, 50)
       /\ frequentRenterPoints = Whole(4)

\* C6: for the demo customer and movies the amounts are 3.50 (a regular movie
\* kept 3 days, one more than its threshold), 2.00, 1.50 and 3.00, the total,
\* also as shown on the total line, is 10.00 and the points are 4.
C6_DemoTotals ==
    DemoDone
    => /\ Amounts = <<Dec(3, 50), Whole(2), Dec(1, 50), Whole(3)>>
       /\ totalAmount = Whole(10)
       /\ DisplayedAmount(Lines[Len(Rentals) + 4]) = Whole(10)
       /\ frequentRenterPoints = Whole(4)
       /\ Lines[Len(Rentals) + 5] = <<"E", "a", "r", "n", "e", "d", " ", "4", " ", "f", "r", "e", "q", "u", "e", "n", "t", " ", "r", "e", "n", "t", "e", "r", " ", "p", "o", "i", "n", "t", "s">>

\* The demo statement has been rendered.
C6_Witness ==
    /\ DemoDone
    /\ Len(rentalSummaries) = 4
    /\ output.t = "string"

\* C7: on every statement that succeeds, the amount shown on the total line is
\* the sum of the amounts shown on the rental lines.
C7_TotalIsSumOfLines ==
    (op = "statement" /\ pc = "done")
    => DisplayedAmount(Lines[Len(Rentals) + 4])
           = SumShown([i \in 1..Len(Rentals) |-> DisplayedAmount(Lines[2 + i])])

\* The label column of a line that shows the label
LabelColumn(label) ==
    IF Len(label) > 30
    THEN SubSeq(label, 1, 27) \o <<".", ".", ".">>
    ELSE label \o Repeat(" ", 30 - Len(label))

\* The amount column of a line that shows the amount with two decimals
AmountColumn(amount) ==
    LET fixed == (IF amount.v < 0 THEN <<"-">> ELSE <<>>)
                    \o Digits(Abs(amount.v) \div 100) \o <<".">>
                    \o Digits(((Abs(amount.v) % 100) \div 10)) \o Digits(Abs(amount.v) % 10)
    IN  Repeat(" ", 8 - Len(fixed)) \o fixed

\* C8: a statement that succeeds for n rentals is the header naming the
\* customer, 38 dashes, one line per rental with its movie's title and amount in
\* the order of the rentals, 38 dashes, the total line and the points line,
\* n + 5 lines each ended by a newline.
C8_StatementLayout ==
    (op = "statement" /\ pc = "done")
    => LET n == Len(Rentals) IN
       /\ Len(Lines) = n + 6
       /\ Lines[n + 6] = <<>>
       /\ Lines[1] = <<"R", "e", "n", "t", "a", "l", " ", "R", "e", "c", "o", "r", "d", " ", "f", "o", "r", " ">> \o customer.name.s
       /\ Lines[2] = Dashes
       /\ \A i \in 1..n :
             /\ rentalSummaries[i].amount.t = "number"
             /\ Lines[2 + i] = LabelColumn(movies[Rentals[i].movieID].title.s)
                                  \o AmountColumn(rentalSummaries[i].amount)
       /\ Lines[n + 3] = Dashes
       /\ totalAmount.t = "number"
       /\ Lines[n + 4] = LabelColumn(<<"A", "m", "o", "u", "n", "t", " ", "o", "w", "e", "d", " ", "i", "s">>) \o AmountColumn(totalAmount)
       /\ Lines[n + 5] = <<"E", "a", "r", "n", "e", "d", " ">> \o NumberToString(frequentRenterPoints)
                             \o <<" ", "f", "r", "e", "q", "u", "e", "n", "t", " ", "r", "e", "n", "t", "e", "r", " ", "p", "o", "i", "n", "t", "s">>

FormattedLabel ==
    /\ InCall("formatStatementLine")
    /\ args.label.t = "string"
    /\ Len(Trim(args.label.s)) > 0
    /\ args.amount.t = "number"

Faulty(rental) == rental.movieID \notin DOMAIN movies \/ ~ValidDays(rental.days)

FaultOf(rental) ==
    IF rental.movieID \notin DOMAIN movies
    THEN MovieNotFound(rental.movieID)
    ELSE InvalidDays(rental.days)

\* The charge of a rental that is not faulty
ChargeOf(rental) == calculateRentalCharge(movies[rental.movieID], rental.days).value

RECURSIVE SumOf(_, _, _)
SumOf(rentals, k, field) ==
    IF k = 0 THEN Whole(0)
    ELSE Plus(SumOf(rentals, k - 1, field), Field(ChargeOf(rentals[k]), field))

Unrecognized(rental) == CodeOf(movies[rental.movieID]) \notin DOMAIN chargeCalculators

\* C10: statement handles the rentals in order and stops at the first faulty one
\* (a movieID missing from the catalog, or invalid days) with that rental's
\* error, the missing movie first; while k rentals have been handled without
\* error, none of them is faulty, and the total, the points, the summaries and
\* the notices are those of exactly these k rentals.
C10_StopsAtFirstFault ==
    op = "statement"
    => /\ \A j \in 1..(idx - 1) : ~Faulty(Rentals[j])
       /\ Len(rentalSummaries) = idx - 1
       /\ totalAmount = SumOf(Rentals, idx - 1, "amount")
       /\ frequentRenterPoints = SumOf(Rentals, idx - 1, "points")
       /\ Len(console) = Cardinality({j \in 1..(idx - 1) : Unrecognized(Rentals[j])})
       /\ pc = "failed"
          => /\ idx <= Len(Rentals)
             /\ Faulty(Rentals[idx])
             /\ error = FaultOf(Rentals[idx])
       /\ pc = "done" => idx = Len(Rentals) + 1

====
